---- MODULE Spec2Model ----
(***************************************************************************)
(* A model of ml_project/train.py: one invocation of train(cfg).  The run  *)
(* assembles a ColumnTransformer + classifier Pipeline from configuration, *)
(* reads the train and test CSV files, cross-validates the pipeline on the *)
(* union of the two, fits it on the train split, scores it on the test     *)
(* split with ROC AUC, writes the metric as JSON and pickles the pipeline. *)
(* Every statement of train() that can raise is a step that either         *)
(* completes or ends the run: train() has no try/except.                   *)
(***************************************************************************)
EXTENDS Integers, Sequences, FiniteSets, TLC

VARIABLES
    cfg,              \* the TrainConfig handed to train()
    csv_train,        \* the file at cfg.data_config.path_to_train
    csv_test,         \* the file at cfg.data_config.path_to_test
    metric_file,      \* the file at cfg.output_metric
    model_file,       \* the file at cfg.model_path
    stage,            \* the lifecycle stage the run has completed, or "Failed"
    error,            \* the call that raised, "none" while the run is healthy
    cls_params,       \* local cls_params (lines 51-52)
    cls_pipeline,     \* local cls_pipeline (lines 55-58)
    train_data,       \* local train_data (line 61)
    test_data,        \* local test_data (line 64)
    val_score,        \* the table cross_val logs (lines 42-43)
    cv_fits,          \* the rows each cross-validation clone was fitted on
    cls_received,     \* the source columns whose values reached a classifier
    proba_matrix,     \* the value of cls_pipeline.predict_proba(test_features)
    predicted_proba,  \* local predicted_proba (line 86)
    roc_auc_score,    \* local roc_auc_score (line 88)
    io_log            \* the output calls of lines 95-105 made so far, in order

vars == <<cfg, csv_train, csv_test, metric_file, model_file, stage, error,
          cls_params, cls_pipeline, train_data, test_data, val_score, cv_fits,
          cls_received, proba_matrix, predicted_proba, roc_auc_score, io_log>>

(***************************************************************************)
(* Bounds of the model.                                                    *)
(***************************************************************************)
MaxTrainRows == 3     \* rows of the train CSV file
MaxTestRows == 2      \* rows of the test CSV file
MaxTransforms == 2    \* entries of cfg.feature_transform.transformers
ProbScale == 2        \* probabilities are the fractions 0/ProbScale .. 1

(***************************************************************************)
(* Small helpers.                                                          *)
(***************************************************************************)
Range(s) == {s[i] : i \in DOMAIN s}

SeqsUpTo(S, n) == UNION {[1..m -> S] : m \in 0..n}

RECURSIVE SumOver(_, _)
SumOver(f, S) ==
    IF S = {} THEN 0
    ELSE LET x == CHOOSE y \in S : TRUE IN f[x] + SumOver(f, S \ {x})

\* The subsequence of s at the indices in I, in increasing index order.
RECURSIVE Pick(_, _)
Pick(s, I) ==
    IF I = {} THEN <<>>
    ELSE LET m == CHOOSE i \in I : \A j \in I : i <= j
         IN <<s[m]>> \o Pick(s, I \ {m})

EmptyParams == [k \in {} |-> ""]

(***************************************************************************)
(* The lifecycle stages, in the order train() goes through them.           *)
(***************************************************************************)
Stages == <<"ConfigLoaded", "PipelineBuilt", "DataLoaded", "CrossValidated",
            "Trained", "Evaluated", "Persisted", "Done">>

StageNo(s) == CHOOSE i \in DOMAIN Stages : Stages[i] = s

Reached(s) == stage # "Failed" /\ StageNo(stage) >= StageNo(s)

(***************************************************************************)
(* utils.get_class_type and the constructor call that follows it.  The     *)
(* registry stands for the importable types and the keywords each accepts. *)
(***************************************************************************)
ClassRegistry ==
    [c \in {"sklearn.preprocessing.StandardScaler",
            "sklearn.preprocessing.OneHotEncoder",
            "sklearn.linear_model.LogisticRegression",
            "sklearn.svm.SVC"} |->
        CASE c = "sklearn.preprocessing.StandardScaler" -> {"with_mean"}
          [] c = "sklearn.preprocessing.OneHotEncoder" -> {"handle_unknown"}
          [] c = "sklearn.linear_model.LogisticRegression" -> {"C", "random_state"}
          [] c = "sklearn.svm.SVC" -> {"C", "probability"}]

get_class_type(classname) == classname \in DOMAIN ClassRegistry

Constructible(classname, params) ==
    /\ get_class_type(classname)
    /\ DOMAIN params \subseteq ClassRegistry[classname]

Instance(classname, params) == [classname |-> classname, params |-> params]

(***************************************************************************)
(* Lines 48-50: the ColumnTransformer.  One entry per configured transform *)
(* in configured order, remainder = "drop".                                *)
(***************************************************************************)
\* A variant of line 50 with remainder="passthrough".
RemainderPassthrough == "passthrough"

Remainder == "drop"

TransformerEntry(transform) ==
    [name |-> transform.stage_name,
     transformer |-> Instance(transform.classname, transform.params),
     columns |-> transform.columns]

\* A variant of lines 48-50 that lists the transforms in reverse.
ColumnTransformerReversed(transformers) ==
    [transformers |->
        [i \in DOMAIN transformers |->
            TransformerEntry(transformers[Len(transformers) + 1 - i])],
     remainder |-> Remainder]

ColumnTransformerOf(transformers) ==
    [transformers |-> [i \in DOMAIN transformers |-> TransformerEntry(transformers[i])],
     remainder |-> Remainder]

TransformersConstructible(transformers) ==
    \A i \in DOMAIN transformers :
        Constructible(transformers[i].classname, transformers[i].params)

(***************************************************************************)
(* Lines 51-53: the classifier's keyword parameters are a copy of          *)
(* cfg.cls_config with the classname entry popped from the copy.           *)
(***************************************************************************)
\* A variant of lines 51-52 without the pop.
ClsParamsNoPop(cls_config) == cls_config

ClsParams(cls_config) ==
    [k \in (DOMAIN cls_config) \ {"classname"} |-> cls_config[k]]

(***************************************************************************)
(* Lines 55-58: the Pipeline, unfitted.                                    *)
(***************************************************************************)
PipelineOf(column_transformers, cls) ==
    [steps |-> <<[name |-> "feature_transform", est |-> column_transformers],
                 [name |-> "cls", est |-> cls]>>,
     fit_count |-> 0,
     fitted_on |-> <<>>,
     classes |-> {}]

NoPipeline == [steps |-> <<>>, fit_count |-> 0, fitted_on |-> <<>>, classes |-> {}]

(***************************************************************************)
(* Files.  A CSV file holds one row per line; a row is modelled by its     *)
(* target label, its feature values stay abstract.  Every CSV has the same *)
(* header.                                                                 *)
(***************************************************************************)
Labels == {0, 1}

DataColumns == {"A", "B", "C", "target"}

File(content) == [exists |-> TRUE, content |-> content]

Absent == [exists |-> FALSE, content |-> <<>>]

\* Lines 61, 64: pd.read_csv.  A row keeps the file it came from and its line.
read_csv(file, src) ==
    [loaded |-> TRUE,
     rows |-> [i \in DOMAIN file.content |->
                  [src |-> src, idx |-> i, y |-> file.content[i]]]]

NotLoaded == [loaded |-> FALSE, rows |-> <<>>]

\* A variant of line 68 that leaves the test rows out.
UnionDataTrainOnly(train_rows, test_rows) == train_rows

\* Line 68: train_data.append(test_data), the rows of train followed by test.
UnionData(train_rows, test_rows) == train_rows \o test_rows

(***************************************************************************)
(* Lines 28-30: prepare_date = feature_target_split(clean_data(data)).     *)
(* Cleaning keeps the rows; the split separates the target column.         *)
(***************************************************************************)
PrepareFails(target_variable) == target_variable \notin DataColumns

prepare_date(rows, uniq_values_limit, target_variable) ==
    [columns |-> DataColumns \ {target_variable},
     features |-> [i \in DOMAIN rows |-> [src |-> rows[i].src, idx |-> rows[i].idx]],
     target |-> [i \in DOMAIN rows |-> rows[i].y]]

(***************************************************************************)
(* What fitting and transforming with the pipeline does with the columns.  *)
(***************************************************************************)
ListedColumns(ct) ==
    UNION {Range(ct.transformers[i].columns) : i \in DOMAIN ct.transformers}

\* The source columns the ColumnTransformer's output is derived from.
TransformedColumns(ct, columns) ==
    ListedColumns(ct) \cup
        (IF ct.remainder = "passthrough" THEN columns \ ListedColumns(ct) ELSE {})

UniqueNames(ct) ==
    \A i, j \in DOMAIN ct.transformers :
        ct.transformers[i].name = ct.transformers[j].name => i = j

\* Pipeline.fit raises: duplicate stage names, a listed column that the
\* features lack, no feature left for the classifier, no row, or a target
\* with a single class.
FitFails(pipeline, columns, target) ==
    LET ct == pipeline.steps[1].est IN
    \/ ~UniqueNames(ct)
    \/ ~(ListedColumns(ct) \subseteq columns)
    \/ TransformedColumns(ct, columns) = {}
    \/ Len(target) = 0
    \/ Cardinality(Range(target)) < 2

Fitted(pipeline, features, target) ==
    [pipeline EXCEPT !.fit_count = @ + 1,
                     !.fitted_on = features,
                     !.classes = Range(target)]

(***************************************************************************)
(* Lines 38-40: model_selection.cross_validate with an integer cv on a     *)
(* classifier: StratifiedKFold(cv) without shuffling.                      *)
(***************************************************************************)
\* Classes are numbered by first appearance in y.
EncodedClass(y, i) == IF y[i] = y[1] THEN 0 ELSE 1

ClassCount(y, c) == Cardinality({i \in DOMAIN y : EncodedClass(y, i) = c})

EncodedClasses(y) == {EncodedClass(y, i) : i \in DOMAIN y}

\* The split raises when cv exceeds the number of rows of every class.
SplitFails(y, n_splits) ==
    \/ Len(y) < n_splits
    \/ \A c \in EncodedClasses(y) : n_splits > ClassCount(y, c)

\* y_order is the sorted encoded target; allocation[f][c] counts class c among
\* y_order[f::n_splits] (positions and folds numbered from 0).
Allocation(y, n_splits, f, c) ==
    Cardinality({p \in 0..(Len(y) - 1) :
                    /\ p % n_splits = f
                    /\ (IF p < ClassCount(y, 0) THEN 0 ELSE 1) = c})

\* The rank (from 1) of row i among the rows of its class.
RankInClass(y, i) ==
    Cardinality({j \in 1..i : EncodedClass(y, j) = EncodedClass(y, i)})

CumAllocation(y, n_splits, f, c) ==
    SumOver([g \in 0..f |-> Allocation(y, n_splits, g, c)], 0..f)

\* test_folds[i]: the fold (from 0) whose held-out part contains row i.
TestFold(y, n_splits, i) ==
    LET c == EncodedClass(y, i)
        r == RankInClass(y, i)
    IN CHOOSE f \in 0..(n_splits - 1) :
           /\ r <= CumAllocation(y, n_splits, f, c)
           /\ \A g \in 0..(f - 1) : r > CumAllocation(y, n_splits, g, c)

TestIndices(y, n_splits, f) == {i \in DOMAIN y : TestFold(y, n_splits, i) = f}

\* One fit-and-score per fold, on a clone of the estimator.
FoldRuns(data, n_splits) ==
    [f \in 1..n_splits |->
        LET held == TestIndices(data.target, n_splits, f - 1) IN
        [train |-> Pick(data.features, (DOMAIN data.target) \ held),
         train_target |-> Pick(data.target, (DOMAIN data.target) \ held),
         test |-> Pick(data.features, held),
         test_target |-> Pick(data.target, held)]]

\* A clone's fit failed, or roc_auc met a held-out part with one class: nan.
FoldScore(pipeline, columns, run, scorer) ==
    IF \/ FitFails(pipeline, columns, run.train_target)
       \/ (scorer = "roc_auc" /\ Cardinality(Range(run.test_target)) < 2)
    THEN "nan" ELSE "score"

FoldDegenerate(pipeline, columns, run, scoring) ==
    \E s \in scoring : FoldScore(pipeline, columns, run, s) = "nan"

\* pd.DataFrame(cross_val_score): one row per fold, one score per scorer.
ScoreTable(pipeline, columns, runs, scoring) ==
    [f \in DOMAIN runs |->
        [s \in scoring |-> FoldScore(pipeline, columns, runs[f], s)]]

\* A variant of cross_validate that fits the estimator it is given, not a clone.
EstimatorFittedInPlace(pipeline, runs) ==
    Fitted(pipeline, runs[Len(runs)].train, runs[Len(runs)].train_target)

\* cross_validate fits clones: the estimator it is given stays as it was.
EstimatorAfterCrossValidate(pipeline, runs) == pipeline

\* The columns that reached the classifier of some clone.
ClonesReceived(pipeline, columns, runs) ==
    IF \E f \in DOMAIN runs : ~FitFails(pipeline, columns, runs[f].train_target)
    THEN TransformedColumns(pipeline.steps[1].est, columns)
    ELSE {}

(***************************************************************************)
(* Lines 82-88: predict_proba, its second column, and ROC AUC.  A          *)
(* probability is a numerator over ProbScale; ROC AUC is the fraction      *)
(* num/den of (positive, negative) pairs ranked correctly, ties counting   *)
(* one half: num = 2 * greater + equal, den = 2 * positives * negatives.   *)
(***************************************************************************)
\* predict_proba is unavailable on an SVC built without probability=True, and
\* rejects an empty feature matrix.
PredictProbaFails(pipeline, features) ==
    LET cls == pipeline.steps[2].est IN
    \/ Len(features) = 0
    \/ /\ cls.classname = "sklearn.svm.SVC"
       /\ \/ "probability" \notin DOMAIN cls.params
          \/ cls.params["probability"] # "True"

\* One row per test row: <<P(class 0), P(class 1)>>.
ProbaMatrices(n) ==
    {[i \in 1..n |-> <<ProbScale - m[i], m[i]>>] : m \in [1..n -> 0..ProbScale]}

\* A variant of line 86 that takes [:, 0].
FirstColumn(matrix) == [i \in DOMAIN matrix |-> matrix[i][1]]

\* Line 86: [:, 1], the second column.
PositiveColumn(matrix) == [i \in DOMAIN matrix |-> matrix[i][2]]

\* roc_auc_score raises unless both classes occur in y_true.
RocAucDefined(y_true) == Cardinality(Range(y_true)) >= 2

RocAuc(y_true, y_score) ==
    LET pos == {i \in DOMAIN y_true : y_true[i] = 1}
        neg == {i \in DOMAIN y_true : y_true[i] = 0}
        greater == Cardinality({q \in pos \X neg : y_score[q[1]] > y_score[q[2]]})
        equal == Cardinality({q \in pos \X neg : y_score[q[1]] = y_score[q[2]]})
    IN [num |-> 2 * greater + equal,
        den |-> 2 * Cardinality(pos) * Cardinality(neg)]

UnsetScore == [num |-> 0, den |-> 0]

(***************************************************************************)
(* Lines 90-105: the metric file, then the model file.                     *)
(***************************************************************************)
\* Line 98: the record that is dumped.
MetricRecord(score) == [key |-> "ROC AUC", value |-> score]

\* A variant of line 97 with mode "a": the content is kept.
OpenForAppend(file) == File(file.content)

\* Line 97: open(metric_path, "w") creates the file or truncates it.
OpenForWrite(file) == File(<<>>)

\* Line 99: json.dump writes the record at the file position.
JsonDump(file, record) == File(file.content \o <<record>>)

MetricOutcomes == {"makedirs raises", "open raises", "json.dump raises", "written"}

\* Lines 95-99, up to and including the call that raises.
WriteMetric(file, score, outcome) ==
    CASE outcome = "makedirs raises" ->
            [file |-> file, log |-> <<"makedirs">>, error |-> "makedirs"]
      [] outcome = "open raises" ->
            [file |-> file, log |-> <<"makedirs", "open">>, error |-> "open"]
      [] outcome = "json.dump raises" ->
            [file |-> OpenForWrite(file),
             log |-> <<"makedirs", "open", "json.dump">>,
             error |-> "json.dump"]
      [] outcome = "written" ->
            [file |-> JsonDump(OpenForWrite(file), MetricRecord(score)),
             log |-> <<"makedirs", "open", "json.dump">>,
             error |-> "none"]

ModelOutcomes == {"open raises", "pickle.dump raises", "written"}

\* Line 105: utils.dump_pickle(obj, path).
dump_pickle(file, obj, outcome) ==
    CASE outcome = "open raises" ->
            [file |-> file, log |-> <<"dump_pickle">>, error |-> "dump_pickle"]
      [] outcome = "pickle.dump raises" ->
            [file |-> File(<<>>), log |-> <<"dump_pickle">>, error |-> "dump_pickle"]
      [] outcome = "written" ->
            [file |-> File(<<obj>>), log |-> <<"dump_pickle">>, error |-> "none"]

\* A variant of lines 95-105 that guards the metric write with try/finally and
\* calls dump_pickle whatever the metric write did.
PersistEffectsIndependent(metric_outcome, model_outcome) ==
    LET m == WriteMetric(metric_file, roc_auc_score, metric_outcome)
        p == dump_pickle(model_file, cls_pipeline, model_outcome)
    IN [metric |-> m.file, model |-> p.file, log |-> m.log \o p.log,
        error |-> IF m.error # "none" THEN m.error ELSE p.error]

\* Lines 95-105 in sequence: an exception of the metric write leaves train()
\* before dump_pickle is called.
PersistEffects(metric_outcome, model_outcome) ==
    LET m == WriteMetric(metric_file, roc_auc_score, metric_outcome)
        p == dump_pickle(model_file, cls_pipeline, model_outcome)
    IN IF m.error # "none"
       THEN [metric |-> m.file, model |-> model_file, log |-> m.log, error |-> m.error]
       ELSE [metric |-> m.file, model |-> p.file, log |-> m.log \o p.log,
             error |-> p.error]

(***************************************************************************)
(* Configurations and input files.                                         *)
(***************************************************************************)
Scale ==
    [stage_name |-> "scale", classname |-> "sklearn.preprocessing.StandardScaler",
     params |-> [with_mean |-> "True"], columns |-> <<"A">>]

OneHot ==
    [stage_name |-> "onehot", classname |-> "sklearn.preprocessing.OneHotEncoder",
     params |-> [handle_unknown |-> "ignore"], columns |-> <<"B">>]

ScaleMissing ==
    [stage_name |-> "extra", classname |-> "sklearn.preprocessing.StandardScaler",
     params |-> [with_mean |-> "False"], columns |-> <<"A", "Z">>]

Unresolvable ==
    [stage_name |-> "bogus", classname |-> "no.such.Transformer",
     params |-> [with_mean |-> "True"], columns |-> <<"A">>]

TransformPool == {Scale, OneHot, ScaleMissing, Unresolvable}

LogReg ==
    [classname |-> "sklearn.linear_model.LogisticRegression",
     C |-> "1.0", random_state |-> "0"]

SvcProba == [classname |-> "sklearn.svm.SVC", C |-> "1.0", probability |-> "True"]

SvcNoProba == [classname |-> "sklearn.svm.SVC", C |-> "1.0"]

UnknownCls == [classname |-> "no.such.Classifier"]

BadKeyword == [classname |-> "sklearn.linear_model.LogisticRegression", kernel |-> "rbf"]

ClsConfigs == {LogReg, SvcProba, SvcNoProba, UnknownCls, BadKeyword}

TrainConfig(transformers, cls_config, cv, scores, target_variable) ==
    [data_config |-> [unique_values_limit |-> 10, target_variable |-> target_variable],
     feature_transform |-> [transformers |-> transformers],
     cls_config |-> cls_config,
     cross_val |-> [scores |-> scores, cv |-> cv]]

\* The configurations of the lifecycle runs: a working one under each fold
\* count and scorer list, and one per way a stage can fail.
RunConfigs ==
    {TrainConfig(<<Scale, OneHot>>, LogReg, 2, {"accuracy", "roc_auc"}, "target"),
     TrainConfig(<<Scale, OneHot>>, LogReg, 3, {"accuracy", "roc_auc"}, "target"),
     TrainConfig(<<Scale, OneHot>>, SvcProba, 3, {"accuracy"}, "target"),
     TrainConfig(<<Scale, OneHot>>, SvcNoProba, 2, {"accuracy"}, "target"),
     TrainConfig(<<ScaleMissing>>, LogReg, 2, {"accuracy"}, "target"),
     TrainConfig(<<Unresolvable>>, LogReg, 2, {"accuracy"}, "target"),
     TrainConfig(<<Scale>>, LogReg, 2, {"accuracy"}, "label")}

\* The configurations of the pipeline-assembly runs.
BuildConfigs ==
    {TrainConfig(t, c, 2, {"accuracy"}, "target") :
        t \in SeqsUpTo(TransformPool, MaxTransforms), c \in ClsConfigs}

CsvFiles(max_rows) == {Absent} \cup {File(rows) : rows \in SeqsUpTo(Labels, max_rows)}

\* What cfg.output_metric and cfg.model_path may hold before the run: nothing,
\* what a run that died in json.dump left, or what a completed run left.
PriorOutputs ==
    {[metric |-> Absent, model |-> Absent],
     [metric |-> File(<<>>), model |-> Absent],
     [metric |-> File(<<MetricRecord([num |-> 1, den |-> 2])>>),
      model |-> File(<<NoPipeline>>)]}

Locals ==
    /\ stage = "ConfigLoaded"
    /\ error = "none"
    /\ cls_params = EmptyParams
    /\ cls_pipeline = NoPipeline
    /\ train_data = NotLoaded
    /\ test_data = NotLoaded
    /\ val_score = <<>>
    /\ cv_fits = <<>>
    /\ cls_received = {}
    /\ proba_matrix = <<>>
    /\ predicted_proba = <<>>
    /\ roc_auc_score = UnsetScore
    /\ io_log = <<>>

Init ==
    /\ cfg \in RunConfigs
    /\ csv_train \in CsvFiles(MaxTrainRows)
    /\ csv_test \in CsvFiles(MaxTestRows)
    /\ \E prior \in PriorOutputs :
          metric_file = prior.metric /\ model_file = prior.model
    /\ Locals

InitBuild ==
    /\ cfg \in BuildConfigs
    /\ csv_train = File(<<0, 1>>)
    /\ csv_test = File(<<1, 0>>)
    /\ metric_file = Absent
    /\ model_file = Absent
    /\ Locals

(***************************************************************************)
(* The steps of train().                                                   *)
(***************************************************************************)
Inputs == <<cfg, csv_train, csv_test>>

Fail(e) == stage' = "Failed" /\ error' = e

\* Lines 48-58.
BuildPipeline ==
    /\ stage = "ConfigLoaded"
    /\ UNCHANGED <<Inputs, metric_file, model_file, train_data, test_data, val_score,
                   cv_fits, cls_received, proba_matrix, predicted_proba,
                   roc_auc_score, io_log>>
    /\ IF ~TransformersConstructible(cfg.feature_transform.transformers)
       THEN Fail("transformer") /\ UNCHANGED <<cls_params, cls_pipeline>>
       ELSE /\ cls_params' = ClsParams(cfg.cls_config)
            /\ IF ~Constructible(cfg.cls_config.classname, cls_params')
               THEN Fail("classifier") /\ UNCHANGED cls_pipeline
               ELSE /\ cls_pipeline' =
                          PipelineOf(
                              ColumnTransformerOf(cfg.feature_transform.transformers),
                              Instance(cfg.cls_config.classname, cls_params'))
                    /\ stage' = "PipelineBuilt"
                    /\ UNCHANGED error

\* A variant of lines 60-64 moved above line 48: the files are read first.
LoadDataEarly ==
    /\ stage \in {"ConfigLoaded", "PipelineBuilt"}
    /\ csv_train.exists /\ csv_test.exists
    /\ train_data' = read_csv(csv_train, "train")
    /\ test_data' = read_csv(csv_test, "test")
    /\ stage' = "DataLoaded"
    /\ UNCHANGED <<Inputs, metric_file, model_file, error, cls_params, cls_pipeline,
                   val_score, cv_fits, cls_received, proba_matrix, predicted_proba,
                   roc_auc_score, io_log>>

\* A variant of lines 60-64 that catches the read error of a missing file and
\* goes on with an empty frame.
LoadDataIgnoreMissing ==
    /\ stage = "PipelineBuilt"
    /\ train_data' = read_csv(csv_train, "train")
    /\ test_data' = read_csv(csv_test, "test")
    /\ stage' = "DataLoaded"
    /\ UNCHANGED <<Inputs, metric_file, model_file, error, cls_params, cls_pipeline,
                   val_score, cv_fits, cls_received, proba_matrix, predicted_proba,
                   roc_auc_score, io_log>>

\* Lines 60-64.
LoadData ==
    /\ stage = "PipelineBuilt"
    /\ UNCHANGED <<Inputs, metric_file, model_file, cls_params, cls_pipeline, val_score,
                   cv_fits, cls_received, proba_matrix, predicted_proba,
                   roc_auc_score, io_log>>
    /\ IF ~csv_train.exists
       THEN Fail("read_csv") /\ UNCHANGED <<train_data, test_data>>
       ELSE /\ train_data' = read_csv(csv_train, "train")
            /\ IF ~csv_test.exists
               THEN Fail("read_csv") /\ UNCHANGED test_data
               ELSE /\ test_data' = read_csv(csv_test, "test")
                    /\ stage' = "DataLoaded"
                    /\ UNCHANGED error

\* Lines 66-72 and cross_val, lines 33-43.
CrossValidate ==
    /\ stage = "DataLoaded"
    /\ UNCHANGED <<Inputs, metric_file, model_file, cls_params, train_data, test_data,
                   proba_matrix, predicted_proba, roc_auc_score, io_log>>
    /\ LET union_data == UnionData(train_data.rows, test_data.rows)
           data == prepare_date(union_data, cfg.data_config.unique_values_limit,
                                cfg.data_config.target_variable)
           runs == FoldRuns(data, cfg.cross_val.cv)
       IN IF PrepareFails(cfg.data_config.target_variable)
          THEN Fail("prepare_date")
               /\ UNCHANGED <<cls_pipeline, val_score, cv_fits, cls_received>>
          ELSE IF SplitFails(data.target, cfg.cross_val.cv)
          THEN Fail("cross_validate")
               /\ UNCHANGED <<cls_pipeline, val_score, cv_fits, cls_received>>
          ELSE /\ val_score' = ScoreTable(cls_pipeline, data.columns, runs,
                                          cfg.cross_val.scores)
               /\ cv_fits' = runs
               /\ cls_received' = ClonesReceived(cls_pipeline, data.columns, runs)
               /\ cls_pipeline' = EstimatorAfterCrossValidate(cls_pipeline, runs)
               /\ stage' = "CrossValidated"
               /\ UNCHANGED error

\* A clone's fit or a scorer raised inside cross_validate and the installed
\* scikit-learn propagates it instead of recording nan.
CrossValidateRaises ==
    /\ stage = "DataLoaded"
    /\ ~PrepareFails(cfg.data_config.target_variable)
    /\ LET data == prepare_date(UnionData(train_data.rows, test_data.rows),
                                cfg.data_config.unique_values_limit,
                                cfg.data_config.target_variable)
           runs == FoldRuns(data, cfg.cross_val.cv)
       IN /\ ~SplitFails(data.target, cfg.cross_val.cv)
          /\ \E f \in DOMAIN runs :
                FoldDegenerate(cls_pipeline, data.columns, runs[f], cfg.cross_val.scores)
    /\ Fail("cross_validate")
    /\ UNCHANGED <<Inputs, metric_file, model_file, cls_params, cls_pipeline, train_data,
                   test_data, val_score, cv_fits, cls_received, proba_matrix,
                   predicted_proba, roc_auc_score, io_log>>

\* Lines 74-80.
Fit ==
    /\ stage = "CrossValidated"
    /\ UNCHANGED <<Inputs, metric_file, model_file, cls_params, train_data, test_data,
                   val_score, cv_fits, proba_matrix, predicted_proba, roc_auc_score,
                   io_log>>
    /\ LET data == prepare_date(train_data.rows, cfg.data_config.unique_values_limit,
                                cfg.data_config.target_variable)
       IN IF FitFails(cls_pipeline, data.columns, data.target)
          THEN Fail("fit") /\ UNCHANGED <<cls_pipeline, cls_received>>
          ELSE /\ cls_pipeline' = Fitted(cls_pipeline, data.features, data.target)
               /\ cls_received' =
                      cls_received \cup
                          TransformedColumns(cls_pipeline.steps[1].est, data.columns)
               /\ stage' = "Trained"
               /\ UNCHANGED error

\* Lines 82-88.
Evaluate ==
    /\ stage = "Trained"
    /\ UNCHANGED <<Inputs, metric_file, model_file, cls_params, cls_pipeline, train_data,
                   test_data, val_score, cv_fits, cls_received, io_log>>
    /\ LET data == prepare_date(test_data.rows, cfg.data_config.unique_values_limit,
                                cfg.data_config.target_variable)
       IN IF PredictProbaFails(cls_pipeline, data.features)
          THEN Fail("predict_proba")
               /\ UNCHANGED <<proba_matrix, predicted_proba, roc_auc_score>>
          ELSE \E matrix \in ProbaMatrices(Len(data.features)) :
                  /\ proba_matrix' = matrix
                  /\ predicted_proba' = PositiveColumn(matrix)
                  /\ IF ~RocAucDefined(data.target)
                     THEN Fail("roc_auc_score") /\ UNCHANGED roc_auc_score
                     ELSE /\ roc_auc_score' = RocAuc(data.target, predicted_proba')
                          /\ stage' = "Evaluated"
                          /\ UNCHANGED error

\* Lines 90-105.
Persist ==
    /\ stage = "Evaluated"
    /\ UNCHANGED <<Inputs, cls_params, cls_pipeline, train_data, test_data, val_score,
                   cv_fits, cls_received, proba_matrix, predicted_proba, roc_auc_score>>
    /\ \E metric_outcome \in MetricOutcomes, model_outcome \in ModelOutcomes :
          LET done == PersistEffects(metric_outcome, model_outcome)
          IN /\ metric_file' = done.metric
             /\ model_file' = done.model
             /\ io_log' = io_log \o done.log
             /\ error' = done.error
             /\ stage' = IF done.error = "none" THEN "Persisted" ELSE "Failed"

\* train() returns.
Return ==
    /\ stage = "Persisted"
    /\ stage' = "Done"
    /\ UNCHANGED <<Inputs, metric_file, model_file, error, cls_params, cls_pipeline,
                   train_data, test_data, val_score, cv_fits, cls_received,
                   proba_matrix, predicted_proba, roc_auc_score, io_log>>

Next ==
    \/ BuildPipeline
    \/ LoadData
    \/ CrossValidate
    \/ CrossValidateRaises
    \/ Fit
    \/ Evaluate
    \/ Persist
    \/ Return

\* Runs over varied input files and prior output files.
Spec == Init /\ [][Next]_vars

\* Runs over varied pipeline configurations.
SpecBuild == InitBuild /\ [][Next]_vars

(***************************************************************************)
(* Properties.                                                             *)
(***************************************************************************)
AllOutputCalls == <<"makedirs", "open", "json.dump", "dump_pickle">>

PipelineIsBuilt == Len(cls_pipeline.steps) = 2

\* What has and has not happened once the run has completed a stage.
StageFacts ==
    /\ PipelineIsBuilt <=>
          \/ Reached("PipelineBuilt")
          \/ stage = "Failed" /\ error \notin {"transformer", "classifier"}
    /\ (train_data.loaded \/ test_data.loaded) => PipelineIsBuilt
    /\ Reached("DataLoaded") => train_data.loaded /\ test_data.loaded
    /\ test_data.loaded => train_data.loaded
    /\ (stage \in {"ConfigLoaded", "PipelineBuilt"}) => ~train_data.loaded /\ ~test_data.loaded
    /\ Reached("CrossValidated") <=> (stage # "Failed" /\ Len(val_score) > 0)
    /\ Len(val_score) > 0 => train_data.loaded /\ test_data.loaded
    /\ cls_pipeline.fit_count > 0 => Len(val_score) = cfg.cross_val.cv
    /\ Reached("Trained") <=> (stage # "Failed" /\ cls_pipeline.fit_count = 1)
    /\ Len(proba_matrix) > 0 => cls_pipeline.fit_count = 1
    /\ Reached("Evaluated") <=> (stage # "Failed" /\ roc_auc_score # UnsetScore)
    /\ io_log # <<>> => roc_auc_score # UnsetScore
    /\ Reached("Persisted") <=> (stage # "Failed" /\ io_log = AllOutputCalls)

\* C1: a run goes through ConfigLoaded, PipelineBuilt, DataLoaded,
\* CrossValidated, Trained, Evaluated, Persisted, Done in this order, one
\* stage at a time, none skipped or repeated; the pipeline is built before a
\* CSV file is read and cross-validation is complete before the final fit.
C1_LinearStages ==
    [][/\ stage' # stage =>
            /\ stage # "Failed"
            /\ stage' = "Failed" \/ StageNo(stage') = StageNo(stage) + 1
       /\ StageFacts
       /\ StageFacts']_vars

\* A run that went through every stage.
C1_Witness == stage = "Done" /\ cls_pipeline.fit_count = 1 /\ Len(val_score) = 3

\* No call of a completed stage can have raised: the conditions under which
\* each stage's calls raise, stated on the inputs.
CompletedCleanly ==
    /\ Reached("PipelineBuilt") =>
          /\ \A i \in DOMAIN cfg.feature_transform.transformers :
                LET t == cfg.feature_transform.transformers[i] IN
                /\ t.classname \in DOMAIN ClassRegistry
                /\ DOMAIN t.params \subseteq ClassRegistry[t.classname]
          /\ cfg.cls_config.classname \in DOMAIN ClassRegistry
          /\ (DOMAIN cfg.cls_config) \ {"classname"}
                \subseteq ClassRegistry[cfg.cls_config.classname]
    /\ Reached("DataLoaded") => csv_train.exists /\ csv_test.exists
    /\ Reached("CrossValidated") =>
          /\ cfg.data_config.target_variable \in DataColumns
          /\ Len(csv_train.content) + Len(csv_test.content) >= cfg.cross_val.cv
    /\ Reached("Trained") =>
          /\ Cardinality(Range(csv_train.content)) = 2
          /\ \A i \in DOMAIN cfg.feature_transform.transformers :
                Range(cfg.feature_transform.transformers[i].columns)
                    \subseteq DataColumns \ {cfg.data_config.target_variable}
    /\ Reached("Evaluated") => Cardinality(Range(csv_test.content)) = 2
    /\ Reached("Persisted") =>
          /\ metric_file = File(<<MetricRecord(roc_auc_score)>>)
          /\ model_file = File(<<cls_pipeline>>)

\* C2: a failing call ends the run in Failed at once, nothing runs after
\* Failed, no stage is run again, and Done is reached only by a run in which
\* no call raised.
C2_FailFast ==
    [][/\ (error' # "none") <=> (stage' = "Failed")
       /\ stage # "Failed"
       /\ error = "none"
       /\ stage' # stage
       /\ CompletedCleanly'
       /\ stage' = "Done" => error' = "none" /\ io_log' = AllOutputCalls]_vars

\* A run that failed in the final fit: nothing after it has run.
C2_Witness ==
    /\ stage = "Failed"
    /\ error = "fit"
    /\ Len(val_score) > 0
    /\ cls_pipeline.fit_count = 0
    /\ roc_auc_score = UnsetScore
    /\ io_log = <<>>

MetricWriteErrors == {"makedirs", "open", "json.dump"}

\* C3 as stated: a failed metric write does not prevent the attempt to write
\* the model, and a failure of either write fails the run.
C3_IndependentWrites ==
    /\ error \in MetricWriteErrors => "dump_pickle" \in Range(io_log)
    /\ error \in MetricWriteErrors \cup {"dump_pickle"} => stage = "Failed"

\* C3 amended: the metric is written first; a failed metric write fails the
\* run before dump_pickle is called and leaves the model file as it was; a
\* failed model write fails the run after the metric was written.
C3_SequentialWrites ==
    /\ error \in MetricWriteErrors =>
          /\ stage = "Failed"
          /\ "dump_pickle" \notin Range(io_log)
          /\ model_file \in {prior.model : prior \in PriorOutputs}
    /\ error = "dump_pickle" =>
          /\ stage = "Failed"
          /\ io_log = AllOutputCalls
          /\ metric_file = File(<<MetricRecord(roc_auc_score)>>)
    /\ "dump_pickle" \in Range(io_log) => io_log = AllOutputCalls

\* The metric file could not be opened.
C3_Witness == error = "open" /\ io_log = <<"makedirs", "open">>

ConfiguredColumns ==
    UNION {Range(cfg.feature_transform.transformers[i].columns) :
              i \in DOMAIN cfg.feature_transform.transformers}

\* C4: the feature-transform stage has one entry per configured transform,
\* the Nth entry carrying the stage_name, the classname and params and the
\* columns of the Nth TransformSpec, and the pipeline has two steps,
\* feature_transform first and cls second.
C4_TransformOrder ==
    /\ Reached("PipelineBuilt") => PipelineIsBuilt
    /\ PipelineIsBuilt =>
          LET specs == cfg.feature_transform.transformers
              ct == cls_pipeline.steps[1].est
          IN /\ Len(ct.transformers) = Len(specs)
             /\ \A N \in 1..Len(specs) :
                   /\ ct.transformers[N].name = specs[N].stage_name
                   /\ ct.transformers[N].transformer.classname = specs[N].classname
                   /\ ct.transformers[N].transformer.params = specs[N].params
                   /\ ct.transformers[N].columns = specs[N].columns
             /\ cls_pipeline.steps[1].name = "feature_transform"
             /\ cls_pipeline.steps[2].name = "cls"
             /\ cls_pipeline.steps[2].est.classname = cfg.cls_config.classname

\* A fitted pipeline built from two different transform specs.
C4_Witness ==
    /\ Reached("Trained")
    /\ Len(cfg.feature_transform.transformers) = 2
    /\ cfg.feature_transform.transformers[1] # cfg.feature_transform.transformers[2]

\* C5: a column that no TransformSpec lists contributes nothing to what a
\* classifier receives.
C5_RemainderDropped ==
    /\ cls_received \subseteq ConfiguredColumns
    /\ \A c \in DataColumns : c \notin ConfiguredColumns => c \notin cls_received

\* A fitted pipeline with a single transform over column A: B and C are not
\* listed and the classifier received A only.
C5_Witness ==
    /\ Reached("Trained")
    /\ cfg.feature_transform.transformers = <<Scale>>
    /\ cls_received = {"A"}

\* C6: the classifier's keyword parameters are the entries of cls_config
\* other than classname, each with its configured value, and cls_config
\* still holds classname and every other entry.
C6_ClassifierParams ==
    /\ (stage # "ConfigLoaded" /\ error # "transformer") =>
          /\ DOMAIN cls_params = (DOMAIN cfg.cls_config) \ {"classname"}
          /\ \A k \in DOMAIN cls_params : cls_params[k] = cfg.cls_config[k]
    /\ PipelineIsBuilt =>
          /\ cls_pipeline.steps[2].est.params = cls_params
          /\ cls_pipeline.steps[2].est.classname = cfg.cls_config.classname
    /\ "classname" \in DOMAIN cfg.cls_config
    /\ cfg.cls_config \in ClsConfigs

\* A pipeline built around an SVC with two keyword parameters.
C6_Witness ==
    /\ PipelineIsBuilt
    /\ cfg.cls_config = SvcProba
    /\ DOMAIN cls_pipeline.steps[2].est.params = {"C", "probability"}

AllRows ==
    {[src |-> "train", idx |-> i] : i \in DOMAIN csv_train.content}
        \cup {[src |-> "test", idx |-> i] : i \in DOMAIN csv_test.content}

\* C7: with cv = k, cross-validation over the train and test rows together
\* makes k fold evaluations, holds every row out in exactly one fold, and
\* logs a table of k rows with a score for each configured scorer.
C7_KFolds ==
    Len(val_score) > 0 =>
        LET k == cfg.cross_val.cv IN
        /\ k >= 2
        /\ Len(val_score) = k
        /\ Len(cv_fits) = k
        /\ \A f \in 1..k :
              /\ DOMAIN val_score[f] = cfg.cross_val.scores
              /\ Range(cv_fits[f].test) # {}
              /\ Range(cv_fits[f].test) \cup Range(cv_fits[f].train) = AllRows
              /\ Range(cv_fits[f].test) \cap Range(cv_fits[f].train) = {}
        /\ \A r \in AllRows :
              Cardinality({f \in 1..k : r \in Range(cv_fits[f].test)}) = 1

\* Three folds with two scorers over train and test rows.
C7_Witness ==
    /\ Len(val_score) = 3
    /\ cfg.cross_val.scores = {"accuracy", "roc_auc"}
    /\ Len(train_data.rows) > 0
    /\ Len(test_data.rows) > 0

\* C8: a test target with fewer than two classes makes the evaluation fail
\* and the run writes no file; with two classes the ROC AUC is within [0, 1]
\* and is computed from the second column of predict_proba.
C8_RocAuc ==
    /\ (test_data.loaded /\ Cardinality(Range(csv_test.content)) < 2) =>
          /\ ~Reached("Evaluated")
          /\ roc_auc_score = UnsetScore
          /\ io_log = <<>>
          /\ [metric |-> metric_file, model |-> model_file] \in PriorOutputs
          /\ (cls_pipeline.fit_count = 1 /\ stage = "Failed") =>
                error \in {"predict_proba", "roc_auc_score"}
    /\ error = "roc_auc_score" =>
          /\ stage = "Failed"
          /\ Cardinality(Range(csv_test.content)) < 2
    /\ roc_auc_score # UnsetScore =>
          /\ Cardinality(Range(csv_test.content)) = 2
          /\ roc_auc_score.den > 0
          /\ 0 <= roc_auc_score.num
          /\ roc_auc_score.num <= roc_auc_score.den
          /\ roc_auc_score =
                RocAuc(csv_test.content,
                       [i \in DOMAIN proba_matrix |-> proba_matrix[i][2]])

\* roc_auc_score raised on a test target of two rows with one class.
C8_Witness ==
    /\ error = "roc_auc_score"
    /\ Len(test_data.rows) = 2
    /\ cls_pipeline.fit_count = 1

\* C9: once the metric is written the file holds the single record
\* {"ROC AUC": value}, whatever it held before.
C9_MetricOverwrite ==
    ("json.dump" \in Range(io_log) /\ error # "json.dump") =>
        metric_file = File(<<MetricRecord(roc_auc_score)>>)

\* The metric 1/2 written over the record 1/2 of an earlier run: the model
\* file still holds the earlier run's artifact.
C9_Witness ==
    /\ error = "dump_pickle"
    /\ model_file = File(<<NoPipeline>>)
    /\ roc_auc_score = [num |-> 1, den |-> 2]
    /\ metric_file = File(<<MetricRecord([num |-> 1, den |-> 2])>>)

\* C10: cross-validation leaves the assembled pipeline unfitted and as
\* built; the pipeline is fitted once, on the train rows only, to a state
\* that depends on the configuration and the train rows alone; the metric
\* comes from the fitted pipeline, and the model is written only from that
\* pipeline and after its metric.
C10_FittedOnce ==
    LET built == PipelineOf(ColumnTransformerOf(cfg.feature_transform.transformers),
                            Instance(cfg.cls_config.classname, cls_params))
        train_rows == [i \in DOMAIN csv_train.content |-> [src |-> "train", idx |-> i]]
    IN /\ cls_pipeline.fit_count \in {0, 1}
       /\ stage = "CrossValidated" => cls_pipeline = built
       /\ cls_pipeline.fit_count = 1 =>
             /\ cls_pipeline = Fitted(built, train_rows, csv_train.content)
             /\ \A i \in DOMAIN cls_pipeline.fitted_on :
                   cls_pipeline.fitted_on[i].src = "train"
       /\ roc_auc_score # UnsetScore => cls_pipeline.fit_count = 1
       /\ "dump_pickle" \in Range(io_log) =>
             /\ cls_pipeline.fit_count = 1
             /\ metric_file = File(<<MetricRecord(roc_auc_score)>>)
       /\ Reached("Persisted") => model_file = File(<<cls_pipeline>>)

\* A completed run with test rows: the artifact is the pipeline fitted on
\* the three train rows.
C10_Witness ==
    /\ stage = "Done"
    /\ Len(test_data.rows) = 2
    /\ Len(cls_pipeline.fitted_on) = 3
    /\ model_file = File(<<cls_pipeline>>)

====
